---- MODULE Spec2Model ----
(***************************************************************************)
(* Earthquake Visualizer: the client-side state of App (App.tsx) and the   *)
(* feed client (lib/usgs.ts).                                              *)
(*                                                                         *)
(* One action per user event or fetch resolution.  An action runs the      *)
(* event handler and then everything React runs before the next event:     *)
(* the re-render, the effects of the components mounted by that render,    *)
(* and the re-renders caused by the state those effects set.               *)
(*                                                                         *)
(* Numbers: magnitudes are tenths (2.5 is 25); null is the value Null.     *)
(* Text is a tuple of one-character strings.  A feature is held by its id; *)
(* Quake(id) gives its fields, which no code changes.                      *)
(*                                                                         *)
(* The production build is modelled: effects run once per commit (the      *)
(* development build's StrictMode runs each mount effect twice).           *)
(***************************************************************************)
EXTENDS Integers, Sequences, FiniteSets, TLC

(* ------------------------------ bounds -------------------------------- *)

\* events in the largest feed response
NumQuakes == 11
\* fetches started in one behaviour, the one at mount included
MaxFetches == 2
\* events in the longest collection the derived views are computed for
MaxEvents == 20
\* events in a collection tried in every order
MaxShort == 3
\* largest number of pages and largest window getPageNumbers is called with
MaxTotal == 12
MaxWindow == 9

(* --------------------------- basic values ----------------------------- *)

\* `null` of a number | null field
Null == -999999
\* `-Infinity` in  (f.properties.mag ?? -Infinity)
NegInfinity == -1000000
\* `null` of properties.place
NullPlace == <<"null">>
\* `null` of the error state
NoError == "null"
\* `null` of the selected feature
NoFeature == 0
\* no derived view computed
NoView == [kind |-> "none"]

Max(a, b) == IF a >= b THEN a ELSE b
Min(a, b) == IF a <= b THEN a ELSE b

\* x ?? d
Coalesce(x, d) == IF x = Null THEN d ELSE x

\* type TimeRange
TimeRange == {"hour", "day", "week", "month"}

(* ------------------------------ text ---------------------------------- *)

LowerOf(c) ==
  CASE c = "A" -> "a"
    [] c = "K" -> "k"
    [] c = "J" -> "j"
    [] OTHER -> c

\* String.prototype.toLowerCase
ToLowerCase(s) == [i \in 1..Len(s) |-> LowerOf(s[i])]

RECURSIVE TrimStart(_)
TrimStart(s) == IF s # <<>> /\ Head(s) = " " THEN TrimStart(Tail(s)) ELSE s

RECURSIVE TrimEnd(_)
TrimEnd(s) ==
  IF s # <<>> /\ s[Len(s)] = " " THEN TrimEnd(SubSeq(s, 1, Len(s) - 1)) ELSE s

\* String.prototype.trim
Trim(s) == TrimEnd(TrimStart(s))

\* String.prototype.includes
Includes(s, q) ==
  \E i \in 0..(Len(s) - Len(q)) : SubSeq(s, i + 1, i + Len(q)) = q

(* ------------------------------ events -------------------------------- *)

QuakeMag(i) ==
  CASE i = 1 -> Null
    [] i = 2 -> 55
    [] i = 3 -> 60
    [] i = 4 -> 25
    [] i = 20 -> -5
    [] OTHER -> 30 + (i % 3)

QuakePlace(i) ==
  CASE i = 1 -> <<"A", "k">>
    [] i = 2 -> <<"x", "A", "K">>
    [] i = 3 -> <<"J", "p">>
    [] i = 4 -> NullPlace
    [] i = 20 -> <<"z", "z">>
    [] i % 2 = 0 -> <<"a", "k">>
    [] OTHER -> <<"j", "p">>

QuakeTime(i) ==
  CASE i = 3 -> Null
    [] i = 5 -> 70
    [] i = 6 -> 70
    [] OTHER -> 10 * ((i * 7) % 12) + 10

\* an EarthquakeFeature: id, properties {mag, place, time}, geometry.coordinates
\* [lon, lat, depth]
Quake(i) ==
  [id |-> i, mag |-> QuakeMag(i), place |-> QuakePlace(i), time |-> QuakeTime(i),
   lon |-> ((i * 5) % 13) - 6, lat |-> ((i * 3) % 7) - 3, depth |-> i]

\* the features by id
Features == [i \in 1..Max(NumQuakes, MaxEvents) |-> Quake(i)]

FeedAll == [i \in 1..NumQuakes |-> i]
FeedFew == <<3, 1, 2>>
FeedNone == <<>>
\* the feature collections the endpoint answers with
Feeds == {FeedAll, FeedFew, FeedNone}

\* values the user gives the pending inputs
RangeInputs == {"day", "hour"}
MagInputs == {25, 50}
QueryInputs == {<<>>, <<" ", "A", "k">>}

\* rejection values of fetchEarthquakes: an Error with its message, or a
\* value that is not an Error
Rejections ==
  {[isError |-> TRUE, message |-> "USGS request failed: 503"],
   [isError |-> FALSE, message |-> ""]}

(* ------------------------------ the feed ------------------------------ *)

\* const FEED_BY_RANGE
FEED_BY_RANGE ==
  [hour |-> "summary/all_hour.geojson", day |-> "summary/all_day.geojson",
   week |-> "summary/all_week.geojson", month |-> "summary/all_month.geojson"]

\* response.ok: the status is in the range 200-299
ResponseOk(response) == response.status >= 200 /\ response.status <= 299

\* what the network does with a request: it fails, or it answers with a
\* status and a body; answer.status = 0 stands for the failure, on which
\* fetch rejects with a TypeError
NetworkFailed(answer) == answer.status = 0

\* mutant: the body is parsed whatever the status
FetchEarthquakesUnchecked(r, network) ==
  LET url == FEED_BY_RANGE[r]
      response == network[url]
  IN IF NetworkFailed(response)
     THEN [requested |-> <<url>>, fulfilled |-> FALSE,
           reason |-> [isError |-> TRUE, message |-> "Failed to fetch", status |-> Null]]
     ELSE [requested |-> <<url>>, fulfilled |-> TRUE, value |-> response.body]

\* fetchEarthquakes(range): the requests made and how the promise settles
FetchEarthquakes(r, network) ==
  LET url == FEED_BY_RANGE[r]
      response == network[url]
  IN IF NetworkFailed(response)
     THEN [requested |-> <<url>>, fulfilled |-> FALSE,
           reason |-> [isError |-> TRUE, message |-> "Failed to fetch", status |-> Null]]
     ELSE IF ~ResponseOk(response)
     THEN [requested |-> <<url>>, fulfilled |-> FALSE,
           reason |-> [isError |-> TRUE, message |-> "USGS request failed: ",
                       status |-> response.status]]
     ELSE [requested |-> <<url>>, fulfilled |-> TRUE, value |-> response.body]

(* ------------------------- derived views ------------------------------ *)

RECURSIVE SelectSeqBy(_, _, _)
SelectSeqBy(s, minMagV, queryV) ==
  IF s = <<>> THEN <<>>
  ELSE LET f == Features[Head(s)]
           magOk == Coalesce(f.mag, NegInfinity) >= minMagV
           q == ToLowerCase(Trim(queryV))
           placeOk == IF q # <<>>
                      THEN Includes(ToLowerCase(IF f.place = NullPlace THEN <<>> ELSE f.place), q)
                      ELSE TRUE
           rest == SelectSeqBy(Tail(s), minMagV, queryV)
       IN IF magOk /\ placeOk THEN <<Head(s)>> \o rest ELSE rest

\* mutant: the place text is compared as typed, without trim()
FilteredUntrimmed(dataV, minMagV, queryV) ==
  SelectSeq(dataV,
    LAMBDA id :
      /\ Coalesce(Features[id].mag, NegInfinity) >= minMagV
      /\ \/ queryV = <<>>
         \/ Includes(ToLowerCase(IF Features[id].place = NullPlace THEN <<>>
                                  ELSE Features[id].place),
                     ToLowerCase(queryV)))

\* mutant: the filter also drops the first event that passes
FilteredDropsHead(dataV, minMagV, queryV) ==
  LET kept == SelectSeqBy(dataV, minMagV, queryV)
  IN IF kept = <<>> THEN kept ELSE Tail(kept)

\* mutant: the threshold is exclusive
FilteredExclusive(dataV, minMagV, queryV) ==
  SelectSeq(SelectSeqBy(dataV, minMagV, queryV),
            LAMBDA id : Features[id].mag # minMagV)

\* const filtered = useMemo(...)
Filtered(dataV, minMagV, queryV) == SelectSeqBy(dataV, minMagV, queryV)

\* stable insertion of f into a sequence sorted by time descending
RECURSIVE InsertByTimeDesc(_, _)
InsertByTimeDesc(f, s) ==
  IF s = <<>> THEN <<f>>
  ELSE IF Coalesce(Features[Head(s)].time, 0) - Coalesce(Features[f].time, 0) < 0
       THEN <<f>> \o s
       ELSE <<Head(s)>> \o InsertByTimeDesc(f, Tail(s))

RECURSIVE SortPrefix(_, _)
SortPrefix(s, n) ==
  IF n = 0 THEN <<>> ELSE InsertByTimeDesc(s[n], SortPrefix(s, n - 1))

\* [...filtered].sort((a, b) => (b.time ?? 0) - (a.time ?? 0)), a stable sort
SortedByTimeDesc(fl) == SortPrefix(fl, Len(fl))

\* mutant: filtered.sort(...) without the copy, which sorts filtered itself
SortMemoInPlace(fl) ==
  [filtered |-> SortedByTimeDesc(fl), sortedByTimeDesc |-> SortedByTimeDesc(fl)]

\* the two arrays after the memo body ran: the spread copies filtered, and
\* Array.prototype.sort sorts the copy in place and returns it
SortMemo(fl) == [filtered |-> fl, sortedByTimeDesc |-> SortedByTimeDesc(fl)]

pageSize == 9

CeilDiv(n, d) == (n + d - 1) \div d

\* mutant: Math.floor in place of Math.ceil
TotalPagesFloor(n) == Max(1, n \div pageSize)

\* Math.max(1, Math.ceil(sortedByTimeDesc.length / pageSize))
TotalPages(n) == Max(1, CeilDiv(n, pageSize))

\* mutant: start = page * pageSize, which skips the first page
PageItemsFromZero(sorted, p) ==
  LET start == p * pageSize
      lo == Min(Max(start, 0), Len(sorted))
      hi == Min(Max(start + pageSize, 0), Len(sorted))
  IN SubSeq(sorted, lo + 1, hi)

\* sortedByTimeDesc.slice(start, start + pageSize), start = (page - 1) * pageSize
PageItems(sorted, p) ==
  LET start == (p - 1) * pageSize
      lo == Min(Max(start, 0), Len(sorted))
      hi == Min(Max(start + pageSize, 0), Len(sorted))
  IN SubSeq(sorted, lo + 1, hi)

defaultMax == 7

\* mutant: the window is not pulled back when it runs past the last page
GetPageNumbersUnclamped(current, total, max) ==
  IF total <= max
  THEN [i \in 1..total |-> i]
  ELSE LET half == max \div 2
           start == Max(1, current - half)
       IN [i \in 1..max |-> start + (i - 1)]

\* getPageNumbers(current, total, max = 7)
GetPageNumbers(current, total, max) ==
  IF total <= max
  THEN [i \in 1..total |-> i]
  ELSE LET half == max \div 2
           start0 == Max(1, current - half)
           end0 == start0 + max - 1
           end == IF end0 > total THEN total ELSE end0
           start == IF end0 > total THEN end - max + 1 ELSE start0
       IN [i \in 1..(end - start + 1) |-> start + (i - 1)]

\* mags.reduce((a, b) => a + b, 0)
RECURSIVE SumSeq(_)
SumSeq(s) == IF s = <<>> THEN 0 ELSE Head(s) + SumSeq(Tail(s))

\* Math.max(...s, floor)
RECURSIVE MaxOf(_, _)
MaxOf(s, floor) == IF s = <<>> THEN floor ELSE Max(Head(s), MaxOf(Tail(s), floor))

\* a / b, kept as the fraction; a plain number n is n / 1
Quotient(a, b) == [num |-> a, den |-> b]

\* 3600000, the milliseconds of an hour
hourMs == 3600000

\* what the i-th element's call of Date.now() returns: the clock reads
\* clock.first, and one millisecond more after clock.tickAfter elements
DateNow(clock, i) == clock.first + (IF i > clock.tickAfter THEN 1 ELSE 0)

\* f.properties.time && Date.now() - f.properties.time < 3600000
IsRecent(id, now) ==
  /\ Features[id].time # Null /\ Features[id].time # 0
  /\ now - Features[id].time < hourMs

\* mutant: Math.max(...mags) over a non-empty set, without the floor of 0
StatsUnfloored(fl, clock) ==
  LET mags == [i \in 1..Len(fl) |-> Coalesce(Features[fl[i]].mag, 0)]
  IN [total |-> Len(fl),
      maxMag |-> IF mags = <<>> THEN 0 ELSE MaxOf(Tail(mags), Head(mags)),
      avgMag |-> IF Len(mags) # 0 THEN Quotient(SumSeq(mags), Len(mags))
                 ELSE Quotient(0, 1),
      recent |-> Cardinality({i \in 1..Len(fl) : IsRecent(fl[i], DateNow(clock, i))})]

\* const stats = useMemo(...)
Stats(fl, clock) ==
  LET mags == [i \in 1..Len(fl) |-> Coalesce(Features[fl[i]].mag, 0)]
  IN [total |-> Len(fl),
      maxMag |-> MaxOf(mags, 0),
      avgMag |-> IF Len(mags) # 0 THEN Quotient(SumSeq(mags), Len(mags))
                 ELSE Quotient(0, 1),
      recent |-> Cardinality({i \in 1..Len(fl) : IsRecent(fl[i], DateNow(clock, i))})]

SeqToSet(s) == {s[i] : i \in 1..Len(s)}
IdsOf(s) == {Features[s[i]].id : i \in 1..Len(s)}

(* ------------------------------ state --------------------------------- *)

VARIABLES
  range, minMag, query,                       \* the active filter
  pendingRange, pendingMinMag, pendingQuery,  \* the pending filter
  data, loading, error,
  selected, detailsOpen, autoFitEnabled, page,
  selectedStale,    \* the selected feature object is of an earlier response:
                    \* the same id in the current data is another object
  suppressFitRef,   \* useRef(false): suppressFitRef.current
  fetches,          \* fetchEarthquakes promises not yet settled, each with
                    \* the isActive flag of the effect run that started it
  nextSeq,          \* number of fetches started so far
  zoom,             \* the Leaflet map's zoom level: map.getZoom()
  last,             \* what the last event did (history, read by no handler)
  view              \* the derived view computed last, with what it was
                    \* computed from (set where the views are studied apart
                    \* from the events)

vars ==
  <<range, minMag, query, pendingRange, pendingMinMag, pendingQuery, data,
    loading, error, selected, detailsOpen, autoFitEnabled, page,
    selectedStale, suppressFitRef, fetches, nextSeq, zoom, last, view>>

\* the state as one value, for the handlers and effects to transform
World ==
  [range |-> range, minMag |-> minMag, query |-> query,
   pendingRange |-> pendingRange, pendingMinMag |-> pendingMinMag,
   pendingQuery |-> pendingQuery, data |-> data, loading |-> loading,
   error |-> error, selected |-> selected, detailsOpen |-> detailsOpen,
   autoFitEnabled |-> autoFitEnabled, page |-> page,
   selectedStale |-> selectedStale, suppressFitRef |-> suppressFitRef, fetches |-> fetches, nextSeq |-> nextSeq,
   zoom |-> zoom, last |-> last]

\* the useState cells of App: a re-render happens when one of them changes
\* (Object.is: for selected, the feature object; an active response always
\* changes loading, so the new data array always re-renders)
ReactState(w) ==
  <<w.range, w.minMag, w.query, w.pendingRange, w.pendingMinMag, w.pendingQuery,
    w.data, w.loading, w.error, <<w.selected, w.selectedStale>>, w.detailsOpen,
    w.autoFitEnabled, w.page>>

\* useMemo: the derived views are computed once per value of their
\* dependencies and looked up afterwards
filteredMemo ==
  [d \in Feeds, m \in MagInputs, q \in QueryInputs |-> Filtered(d, m, q)]
sortedMemo ==
  [d \in Feeds, m \in MagInputs, q \in QueryInputs |->
     SortedByTimeDesc(filteredMemo[d, m, q])]

filteredOf(w) == filteredMemo[w.data, w.minMag, w.query]
sortedOf(w) == sortedMemo[w.data, w.minMag, w.query]
totalPagesOf(w) == TotalPages(Len(sortedOf(w)))
pageItemsOf(w) == PageItems(sortedOf(w), w.page)

\* pointsMemo: [lat, lon] of every filtered feature
PointsMemo(fl) == [i \in 1..Len(fl) |-> <<Features[fl[i]].lat, Features[fl[i]].lon>>]

SetMin(S) == CHOOSE x \in S : \A y \in S : x <= y
SetMax(S) == CHOOSE x \in S : \A y \in S : x >= y

\* L.latLngBounds(points): south-west and north-east corners
LatLngBounds(points) ==
  LET lats == {points[i][1] : i \in 1..Len(points)}
      lons == {points[i][2] : i \in 1..Len(points)}
  IN [south |-> SetMin(lats), west |-> SetMin(lons),
      north |-> SetMax(lats), east |-> SetMax(lons)]

\* MapContainer zoom={2} minZoom={2}
initialZoom == 2
\* fitBounds(..., { maxZoom: 6 })
fitMaxZoom == 6
\* Math.max(map.getZoom(), 5)
flyMinZoom == 5

\* the zoom a fit of these bounds ends at: the largest zoom at which the
\* bounds fit the map, at least minZoom and at most the maxZoom option.
\* Leaflet computes it from the map's pixel size; here a map on which bounds
\* of up to worldSpan degrees fit at zoom 0 and each zoom level halves that.
worldSpan == 360

RECURSIVE ZoomFor(_, _)
ZoomFor(span, z) ==
  IF z >= fitMaxZoom \/ span * 2 > worldSpan THEN z ELSE ZoomFor(span * 2, z + 1)

BoundsZoom(b) ==
  Max(initialZoom, ZoomFor(Max(b.north - b.south, b.east - b.west), 0))

\* what the last event did: the fit evaluations it ran, the map.fitBounds and
\* map.flyTo calls it made, in order, the toasts it fired, and whether an
\* event was selected, which page was current and which events were in the
\* filtered set when it began
NoteOf(kind, w) ==
  [kind |-> kind, evals |-> 0, fitBounds |-> <<>>, flyTo |-> <<>>, toasts |-> 0,
   hadSelection |-> w.selected # NoFeature, pageBefore |-> w.page,
   idsBefore |-> IdsOf(filteredOf(w))]

(* ------------------------------ effects ------------------------------- *)

\* FitBounds: the effect body
FitBounds(w) ==
  LET points == PointsMemo(filteredOf(w))
      ran == [w EXCEPT !.last.evals = @ + 1]
  IN IF ~w.autoFitEnabled THEN ran
     ELSE IF w.suppressFitRef THEN [ran EXCEPT !.suppressFitRef = FALSE]
     ELSE IF Len(points) = 0 THEN ran
     ELSE LET bounds == LatLngBounds(points)
          IN [ran EXCEPT !.zoom = BoundsZoom(bounds),
                         !.last.fitBounds = Append(@, bounds)]

\* MapSelectionSync: the effect body
MapSelectionSync(w) ==
  IF w.selected = NoFeature THEN w
  ELSE LET target == <<Features[w.selected].lat, Features[w.selected].lon>>
           z == Max(w.zoom, flyMinZoom)
       IN [w EXCEPT !.zoom = z,
                    !.last.flyTo = Append(@, [target |-> target, zoom |-> z])]

\* {!loading && !error && (<> markers, FitBounds, MapSelectionSync </>)}
MarkerLayerRendered(w) == ~w.loading /\ w.error = NoError

\* FitBounds and MapSelectionSync are declared inside App, so every render of
\* App gives them a new component type: React unmounts the old instances and
\* mounts new ones, and a mount runs the effect whatever its dependencies.
ChildEffects(w) ==
  IF MarkerLayerRendered(w) THEN MapSelectionSync(FitBounds(w)) ELSE w

\* mutant: the effect has no cleanup, so the earlier fetch stays active
FetchEffectNoCleanup(w) ==
  [w EXCEPT !.fetches = w.fetches
                        \cup {[seq |-> w.nextSeq + 1, range |-> w.range,
                               isActive |-> TRUE, issuedWith |-> w.data]},
            !.nextSeq = @ + 1,
            !.loading = TRUE,
            !.error = NoError]

\* the effect on [range]: cleanup of the previous run, then the new run up to
\* the call of fetchEarthquakes
FetchEffect(w) ==
  [w EXCEPT !.fetches = {[f EXCEPT !.isActive = FALSE] : f \in w.fetches}
                        \cup {[seq |-> w.nextSeq + 1, range |-> w.range,
                               isActive |-> TRUE, issuedWith |-> w.data]},
            !.nextSeq = @ + 1,
            !.loading = TRUE,
            !.error = NoError]

\* mutant: the effect re-enables auto-fit and forgets setPage(1)
PageResetKeepsPage(w) == [w EXCEPT !.autoFitEnabled = TRUE]

\* the effect on [sortedByTimeDesc.length]
PageResetEffect(w) == [w EXCEPT !.page = 1, !.autoFitEnabled = TRUE]

\* mutant: the page is reset only when the sorted list grows
AppEffectsOnGrowth(prev, w) ==
  LET w1 == IF w.range # prev.range THEN FetchEffect(w) ELSE w
  IN IF Len(sortedOf(w)) > Len(sortedOf(prev)) THEN PageResetEffect(w1) ELSE w1

\* the effects of App whose dependencies changed from the render before
AppEffects(prev, w) ==
  LET w1 == IF w.range # prev.range THEN FetchEffect(w) ELSE w
  IN IF Len(sortedOf(w)) # Len(sortedOf(prev)) THEN PageResetEffect(w1) ELSE w1

\* render, commit and effects, repeated while effects change the state;
\* prev is the state as last rendered (each intermediate state is bound to
\* a name, so that it is computed once)
RECURSIVE Commit(_, _)
Commit(prev, w) ==
  IF ReactState(w) = ReactState(prev) THEN w
  ELSE CHOOSE done \in {Commit(w, next) :
                          next \in {AppEffects(prev, mounted) :
                                      mounted \in {ChildEffects(w)}}} : TRUE

\* the new values of all variables
Becomes(w) ==
  /\ range' = w.range /\ minMag' = w.minMag /\ query' = w.query
  /\ pendingRange' = w.pendingRange /\ pendingMinMag' = w.pendingMinMag
  /\ pendingQuery' = w.pendingQuery /\ data' = w.data /\ loading' = w.loading
  /\ error' = w.error /\ selected' = w.selected /\ detailsOpen' = w.detailsOpen
  /\ autoFitEnabled' = w.autoFitEnabled /\ page' = w.page
  /\ selectedStale' = w.selectedStale
  /\ suppressFitRef' = w.suppressFitRef /\ fetches' = w.fetches
  /\ nextSeq' = w.nextSeq /\ zoom' = w.zoom /\ last' = w.last
  /\ view' = view

\* the state at the start of an event, with a fresh note of it
Noted(kind) == [World EXCEPT !.last = NoteOf(kind, World)]

\* an event: its handler's updates, batched, then the commits they cause
Event(handled) ==
  \E before \in {World} : \E after \in {handled} :
    \E settled \in {Commit(before, after)} : Becomes(settled)

(* ------------------------------ handlers ------------------------------ *)

\* onChange of the pending inputs
OnPendingRange(w, r) == [w EXCEPT !.pendingRange = r]
\* mutant: the magnitude input filters on every keystroke
OnPendingMinMagLive(w, m) == [w EXCEPT !.pendingMinMag = m, !.minMag = m]
OnPendingMinMag(w, m) == [w EXCEPT !.pendingMinMag = m]
OnPendingQuery(w, q) == [w EXCEPT !.pendingQuery = q]

\* mutant: Apply also dismisses the error
OnApplyClearsError(w) ==
  [w EXCEPT !.range = w.pendingRange, !.minMag = w.pendingMinMag,
            !.query = w.pendingQuery, !.selected = NoFeature,
            !.selectedStale = FALSE, !.autoFitEnabled = TRUE,
            !.error = NoError]

\* onClick of Apply Filters
OnApply(w) ==
  [w EXCEPT !.range = w.pendingRange, !.minMag = w.pendingMinMag,
            !.query = w.pendingQuery, !.selected = NoFeature,
            !.selectedStale = FALSE, !.autoFitEnabled = TRUE]

\* mutant: a selection opens the detail dialog
OnSelectOpensDetails(w, f) ==
  [w EXCEPT !.suppressFitRef = TRUE, !.autoFitEnabled = FALSE,
            !.selected = f, !.selectedStale = FALSE, !.detailsOpen = TRUE]

\* mutant: a selection also sends the list back to its first page
OnSelectResetsPage(w, f) ==
  [w EXCEPT !.suppressFitRef = TRUE, !.autoFitEnabled = FALSE,
            !.selected = f, !.selectedStale = FALSE, !.detailsOpen = FALSE,
            !.page = 1]

\* click of a marker, onClick of a list entry
OnSelect(w, f) ==
  [w EXCEPT !.suppressFitRef = TRUE, !.autoFitEnabled = FALSE,
            !.selected = f, !.selectedStale = FALSE, !.detailsOpen = FALSE]

\* Dialog onOpenChange: (open) => { if (!open) setSelected(null); setDetailsOpen(open) }
OnDialogOpenChange(w, open) ==
  [w EXCEPT !.selected = IF ~open THEN NoFeature ELSE @,
            !.selectedStale = IF ~open THEN FALSE ELSE @,
            !.detailsOpen = open]

\* <Dialog open={detailsOpen && !!selected}>: the dialog calls onOpenChange
\* only while it is shown.  No handler sets detailsOpen to true, so the
\* dialog is never shown and its handler is not among the actions.
DialogShown(w) == w.detailsOpen /\ w.selected # NoFeature

\* onClick of a page button, of Prev and of Next
OnPage(w, p) == [w EXCEPT !.page = p]

\* mutant: the response is applied without looking at isActive
OnFulfilledUnguarded(w, f, geo) ==
  [w EXCEPT !.data = geo, !.selectedStale = w.selected # NoFeature]

\* mutant: a response replaces the collection only while there is none
OnFulfilledKeepsOld(w, f, geo) ==
  IF ~f.isActive THEN w
  ELSE [w EXCEPT !.data = IF @ = <<>> THEN geo ELSE @,
                 !.selectedStale = w.selected # NoFeature]

\* .then((geo) => { if (!isActive) return; setData(geo.features) })
\* (geo.features are new objects: a feature selected before is not among them)
OnFulfilled(w, f, geo) ==
  IF ~f.isActive THEN w
  ELSE [w EXCEPT !.data = geo, !.selectedStale = w.selected # NoFeature]

\* mutant: a failure blanks the collection
OnRejectedBlanks(w, f, e) ==
  IF ~f.isActive THEN w
  ELSE LET message == IF e.isError THEN e.message ELSE "Unknown error"
       IN [w EXCEPT !.error = message, !.data = <<>>, !.last.toasts = @ + 1]

\* mutant: the message is read from the rejected value whatever it is
OnRejectedRawMessage(w, f, e) ==
  IF ~f.isActive THEN w
  ELSE [w EXCEPT !.error = e.message, !.last.toasts = @ + 1]

\* .catch((e) => { if (!isActive) return; setError(message); toast(...) })
OnRejected(w, f, e) ==
  IF ~f.isActive THEN w
  ELSE LET message == IF e.isError THEN e.message ELSE "Unknown error"
       IN [w EXCEPT !.error = message, !.last.toasts = @ + 1]

\* mutant: finally clears the loading flag without looking at isActive
OnFinallyAlways(w, f) == [w EXCEPT !.loading = FALSE]

\* .finally(() => isActive && setLoading(false))
OnFinally(w, f) == IF f.isActive THEN [w EXCEPT !.loading = FALSE] ELSE w

\* the promise leaves the set of pending ones
Settled(w, f) == [w EXCEPT !.fetches = @ \ {f}]

(* ------------------------------ actions ------------------------------- *)

\* state after the first render and its effects: the fetch of 'day' started
Init ==
  /\ range = "day" /\ minMag = 25 /\ query = <<>>
  /\ pendingRange = "day" /\ pendingMinMag = 25 /\ pendingQuery = <<>>
  /\ data = <<>> /\ loading = TRUE /\ error = NoError
  /\ selected = NoFeature /\ detailsOpen = FALSE /\ autoFitEnabled = TRUE
  /\ page = 1 /\ selectedStale = FALSE /\ suppressFitRef = FALSE
  /\ fetches = {[seq |-> 1, range |-> "day", isActive |-> TRUE, issuedWith |-> <<>>]}
  /\ nextSeq = 1
  /\ zoom = initialZoom
  /\ last = [kind |-> "mount", evals |-> 0, fitBounds |-> <<>>, flyTo |-> <<>>,
             toasts |-> 0, hadSelection |-> FALSE, pageBefore |-> 1,
             idsBefore |-> {}]
  /\ view = NoView

SetPendingRange ==
  \E r \in RangeInputs :
    LET w0 == Noted("pendingRange") IN Event(OnPendingRange(w0, r))

SetPendingMinMag ==
  \E m \in MagInputs :
    LET w0 == Noted("pendingMinMag") IN Event(OnPendingMinMag(w0, m))

SetPendingQuery ==
  \E q \in QueryInputs :
    LET w0 == Noted("pendingQuery") IN Event(OnPendingQuery(w0, q))

\* an Apply that changes the range starts a fetch: the bound on fetches
ApplyFilters ==
  /\ pendingRange # range => nextSeq < MaxFetches
  /\ Event(OnApply(Noted("apply")))

ClickMarker ==
  /\ MarkerLayerRendered(World)
  /\ \E f \in SeqToSet(filteredOf(World)) : Event(OnSelect(Noted("marker"), f))

ClickListEntry ==
  \E f \in SeqToSet(pageItemsOf(World)) : Event(OnSelect(Noted("list"), f))

ClickPage ==
  \E p \in SeqToSet(GetPageNumbers(page, totalPagesOf(World), defaultMax)) :
    Event(OnPage(Noted("page"), p))

ClickPrev == page > 1 /\ Event(OnPage(Noted("prev"), page - 1))

ClickNext == page < totalPagesOf(World) /\ Event(OnPage(Noted("next"), page + 1))

\* the promise f is fulfilled with the response geo: then, finally
FulfilledWith(f, geo) ==
  LET w0 == Noted(IF f.isActive THEN "fulfilled" ELSE "staleFulfilled")
  IN Event(Settled(OnFinally(OnFulfilled(w0, f, geo), f), f))

FulfilledOf(f) == \E geo \in Feeds : FulfilledWith(f, geo)

\* the promise f is rejected: catch, finally
RejectedOf(f) ==
  \E e \in Rejections :
    LET w0 == Noted(IF f.isActive THEN "rejected" ELSE "staleRejected")
    IN Event(Settled(OnFinally(OnRejected(w0, f, e), f), f))

FetchFulfilled == \E f \in fetches : FulfilledOf(f)

FetchRejected == \E f \in fetches : RejectedOf(f)

Next ==
  \/ SetPendingRange
  \/ SetPendingMinMag
  \/ SetPendingQuery
  \/ ApplyFilters
  \/ ClickMarker
  \/ ClickListEntry
  \/ ClickPage
  \/ ClickPrev
  \/ ClickNext
  \/ FetchFulfilled
  \/ FetchRejected

Spec == Init /\ [][Next]_vars

\* the promise of the fetch started last settles, one way or the other
CurrentFetchSettles ==
  \E f \in fetches :
    /\ f.isActive
    /\ FulfilledOf(f) \/ RejectedOf(f)

\* the behaviours in which the request for the current range is answered or
\* fails in the end: its promise does not stay pending for ever
SpecSettling == Spec /\ WF_vars(CurrentFetchSettles)

(* ------------------------- what is displayed -------------------------- *)

filtered == filteredOf(World)
sortedByTimeDesc == sortedOf(World)
totalPages == totalPagesOf(World)
pageItems == pageItemsOf(World)

\* the markers on the map: filtered.map(...) inside {!loading && !error && ...}
MarkerSurface == IF MarkerLayerRendered(World) THEN filtered ELSE <<>>

\* the entries of the list panel: pageItems.map(...)
ListSurface == pageItems

SeqsOf(F) == {f.seq : f \in F}

activeFilter == <<range, minMag, query>>
pendingFilter == <<pendingRange, pendingMinMag, pendingQuery>>

PendingKinds == {"pendingRange", "pendingMinMag", "pendingQuery"}
SelectKinds == {"marker", "list"}

(* -------------------- the derived views by themselves ----------------- *)

\* all variables but view
appVars ==
  <<range, minMag, query, pendingRange, pendingMinMag, pendingQuery, data,
    loading, error, selected, detailsOpen, autoFitEnabled, page,
    selectedStale, suppressFitRef, fetches, nextSeq, zoom, last>>

\* the events of the collections that are tried in every order: among them
\* a null magnitude, a null place, a null time and two equal times
ShortPool == 1..6

ShortCollections ==
  {s \in UNION {[1..n -> ShortPool] : n \in 0..MaxShort} :
     \A i, j \in 1..Len(s) : i # j => s[i] # s[j]}

\* longer collections, by id ascending and descending
LongCollections ==
  UNION {{[i \in 1..n |-> i], [i \in 1..n |-> n + 1 - i]} :
           n \in (MaxShort + 1)..MaxEvents}

\* values of data: geo.features of a response
Collections == ShortCollections \cup LongCollections

\* values of minMag: parseFloat of the magnitude input, in tenths
MagSpecs == {-10, 0, 25, 31, 55, 61}

\* values of query: the text of the place input
QuerySpecs ==
  {<<>>, <<" ">>, <<"a", "k">>, <<"A", "K">>, <<" ", "A", "k">>,
   <<"j", "p", " ">>, <<"z">>}

\* App with a response loaded and a filter applied, no view computed yet
InitViews ==
  /\ data \in Collections /\ minMag \in MagSpecs /\ query \in QuerySpecs
  /\ range = "day" /\ pendingRange = range
  /\ pendingMinMag = minMag /\ pendingQuery = query
  /\ loading = FALSE /\ error = NoError
  /\ selected = NoFeature /\ detailsOpen = FALSE /\ autoFitEnabled = TRUE
  /\ page = 1 /\ selectedStale = FALSE /\ suppressFitRef = FALSE
  /\ fetches = {} /\ nextSeq = 1
  /\ zoom = initialZoom
  /\ last = [kind |-> "mount", evals |-> 0, fitBounds |-> <<>>, flyTo |-> <<>>,
             toasts |-> 0, hadSelection |-> FALSE, pageBefore |-> 1,
             idsBefore |-> {}]
  /\ view = NoView

\* each view is computed once, from the state as drawn

\* the filtered memo
FilterView ==
  /\ view = NoView
  /\ view' = [kind |-> "filtered", filtered |-> Filtered(data, minMag, query)]
  /\ UNCHANGED appVars

\* the filtered memo computed over its own result
RefilterView ==
  /\ view = NoView
  /\ LET once == Filtered(data, minMag, query)
     IN view' = [kind |-> "refiltered", once |-> once,
                 twice |-> Filtered(once, minMag, query)]
  /\ UNCHANGED appVars

\* the sortedByTimeDesc memo
SortView ==
  /\ view = NoView
  /\ LET memo == SortMemo(Filtered(data, minMag, query))
     IN view' = [kind |-> "sorted", filtered |-> memo.filtered,
                 sortedByTimeDesc |-> memo.sortedByTimeDesc]
  /\ UNCHANGED appVars

\* totalPages, and pageItems for every page from 1 to totalPages
PageView ==
  /\ view = NoView
  /\ LET sorted == SortedByTimeDesc(Filtered(data, minMag, query))
         n == TotalPages(Len(sorted))
     IN view' = [kind |-> "paged", sortedByTimeDesc |-> sorted,
                 totalPages |-> n,
                 pages |-> [p \in 1..n |-> PageItems(sorted, p)]]
  /\ UNCHANGED appVars

\* readings of the clock when the stats memo starts: around one hour after
\* the two events of time 70
ClockReadings == {hourMs + 69, hourMs + 70}

\* the stats memo; Date.now() is called for each event as it is tested, and
\* the clock may pass to the next millisecond between two calls
StatsView ==
  /\ view = NoView
  /\ LET fl == Filtered(data, minMag, query)
     IN \E first \in ClockReadings : \E tickAfter \in 0..Len(fl) :
          LET clock == [first |-> first, tickAfter |-> tickAfter]
          IN view' = [kind |-> "stats", filtered |-> fl,
                      stats |-> Stats(fl, clock),
                      nowFirst |-> first,
                      nowLast |-> IF fl = <<>> THEN first
                                  ELSE DateNow(clock, Len(fl))]
  /\ UNCHANGED appVars

NextViews == FilterView \/ RefilterView \/ SortView \/ PageView \/ StatsView

SpecViews == InitViews /\ [][NextViews]_vars

\* App with getPageNumbers about to be called with current, total and max
InitPageNumbers ==
  /\ range = "day" /\ minMag = 25 /\ query = <<>>
  /\ pendingRange = "day" /\ pendingMinMag = 25 /\ pendingQuery = <<>>
  /\ data = <<>> /\ loading = FALSE /\ error = NoError
  /\ selected = NoFeature /\ detailsOpen = FALSE /\ autoFitEnabled = TRUE
  /\ page = 1 /\ selectedStale = FALSE /\ suppressFitRef = FALSE
  /\ fetches = {} /\ nextSeq = 1
  /\ zoom = initialZoom
  /\ last = [kind |-> "mount", evals |-> 0, fitBounds |-> <<>>, flyTo |-> <<>>,
             toasts |-> 0, hadSelection |-> FALSE, pageBefore |-> 1,
             idsBefore |-> {}]
  /\ \E total \in 1..MaxTotal : \E current \in 1..total : \E max \in 1..MaxWindow :
       view = [kind |-> "args", current |-> current, total |-> total, max |-> max]

\* the call
PageNumbersView ==
  /\ view.kind = "args"
  /\ view' = [kind |-> "pageNumbers", current |-> view.current,
              total |-> view.total, max |-> view.max,
              numbers |-> GetPageNumbers(view.current, view.total, view.max)]
  /\ UNCHANGED appVars

SpecPageNumbers == InitPageNumbers /\ [][PageNumbersView]_vars

(* ------------------------ the feed client by itself -------------------- *)

\* App at rest, nothing loaded
AppAtRest ==
  /\ range = "day" /\ minMag = 25 /\ query = <<>>
  /\ pendingRange = "day" /\ pendingMinMag = 25 /\ pendingQuery = <<>>
  /\ data = <<>> /\ loading = FALSE /\ error = NoError
  /\ selected = NoFeature /\ detailsOpen = FALSE /\ autoFitEnabled = TRUE
  /\ page = 1 /\ selectedStale = FALSE /\ suppressFitRef = FALSE
  /\ fetches = {} /\ nextSeq = 1
  /\ zoom = initialZoom
  /\ last = [kind |-> "mount", evals |-> 0, fitBounds |-> <<>>, flyTo |-> <<>>,
             toasts |-> 0, hadSelection |-> FALSE, pageBefore |-> 1,
             idsBefore |-> {}]

\* HTTP statuses of an answer, and 0 for no answer
Statuses == {0, 199, 200, 299, 300, 404, 503}

\* the documents the endpoints hold: each names its endpoint
Document(url, features) ==
  [type |-> "FeatureCollection", url |-> url, features |-> features]

\* the network: every endpoint answers with the same status and with its
\* own document
Networks ==
  {[url \in {FEED_BY_RANGE[r] : r \in TimeRange} |->
      [status |-> st, body |-> Document(url, f)]] :
     st \in Statuses, f \in Feeds}

\* a call of fetchEarthquakes about to be made
InitFetch ==
  /\ AppAtRest
  /\ \E r \in TimeRange : \E network \in Networks :
       view = [kind |-> "call", range |-> r, network |-> network]

\* the call
FetchView ==
  /\ view.kind = "call"
  /\ view' = [kind |-> "settled", range |-> view.range, network |-> view.network,
              promise |-> FetchEarthquakes(view.range, view.network)]
  /\ UNCHANGED appVars

SpecFetch == InitFetch /\ [][FetchView]_vars

\* (f.properties.place ?? '')
PlaceText(id) == IF Features[id].place = NullPlace THEN <<>> ELSE Features[id].place

\* the filter contract: the magnitude, minus infinity when null, is at least
\* m, and the place text q is empty or the place contains it, case-folded
Passes(id, m, q) ==
  /\ Coalesce(Features[id].mag, NegInfinity) >= m
  /\ q = <<>> \/ Includes(ToLowerCase(PlaceText(id)), ToLowerCase(q))

\* (f.properties.time ?? 0)
TimeKey(id) == Coalesce(Features[id].time, 0)

\* the first n pages, one after the other
RECURSIVE ConcatPages(_, _)
ConcatPages(pages, n) ==
  IF n = 0 THEN <<>> ELSE ConcatPages(pages, n - 1) \o pages[n]

(* ------------------------------ claims -------------------------------- *)

\* C1: the resolution of a fetch whose range has been superseded leaves the
\* event collection, the error state and the loading flag as they were and
\* fires no notification; the collection changes only in a step that settles
\* the fetch started last, which is the one for the active range.
C1_StaleFetchDiscarded ==
  [][/\ \A f \in fetches :
          (f.seq \notin SeqsOf(fetches') /\ ~f.isActive)
            => /\ data' = data /\ error' = error /\ loading' = loading
               /\ last'.toasts = 0
     /\ (\/ data' # data \/ (error' # error /\ error' # NoError)
         \/ (loading /\ ~loading') \/ last'.toasts > 0)
          => \E f \in fetches :
               /\ f.seq \notin SeqsOf(fetches') /\ f.isActive
               /\ f.seq = nextSeq /\ f.range = range]_vars

\* a superseded fetch has just settled while the fetch for the active range
\* is still pending
C1_Witness ==
  /\ last.kind \in {"staleFulfilled", "staleRejected"}
  /\ \E f \in fetches : f.isActive
  /\ loading

\* C2: when the fetch for the active range fails, the event collection is the
\* one displayed when that fetch was started, and no fetch is started.
C2_FailureKeepsData ==
  [][last'.kind = "rejected"
       => \E f \in fetches :
            /\ f.isActive /\ fetches' = fetches \ {f}
            /\ data' = data /\ data' = f.issuedWith
            /\ nextSeq' = nextSeq]_vars

\* the fetch for the active range has just failed over a non-empty collection
C2_Witness ==
  /\ last.kind = "rejected" /\ error # NoError /\ ~loading
  /\ data # <<>>

\* C3: after a failed fetch the map markers and the list both show the
\* filtered data.
C3_SurfacesSurviveError ==
  (error # NoError /\ ~loading)
    => (MarkerSurface = filtered /\ ListSurface = pageItems)

\* C4: a selected event's id is in the filtered set.
C4_SelectionInFiltered ==
  selected # NoFeature => Features[selected].id \in IdsOf(filtered)

\* C5: a step that changes the number of filtered events ends with page = 1.
C5_PageResetOnCardinalityChange ==
  [][Len(filtered') # Len(filtered) => page' = 1]_vars

\* an Apply or a successful fetch has just changed the number of filtered
\* events while page 2 was current
C5_Witness ==
  /\ last.kind \in {"apply", "fulfilled"}
  /\ Cardinality(last.idsBefore) # Len(filtered)
  /\ last.pageBefore = 2 /\ page = 1

\* C6: a step that changes the pending filter changes neither the active
\* filter, the collection, the filtered set, the page nor the selection and
\* starts no fetch; a step that changes the active filter makes all three
\* active fields equal to the pending ones and leaves the pending ones alone.
C6_PendingThenAtomicApply ==
  [][/\ pendingFilter' # pendingFilter
          => /\ activeFilter' = activeFilter /\ data' = data
             /\ filtered' = filtered /\ page' = page /\ selected' = selected
             /\ nextSeq' = nextSeq /\ fetches' = fetches
     /\ activeFilter' # activeFilter
          => /\ activeFilter' = pendingFilter
             /\ pendingFilter' = pendingFilter]_vars

\* a pending input has just been edited and all three pending fields differ
\* from the active ones
C6_Witness ==
  /\ last.kind \in PendingKinds
  /\ pendingRange # range /\ pendingMinMag # minMag /\ pendingQuery # query
  /\ data # <<>>

\* C7: a selection leaves the collection, both filters, the filtered set, the
\* page, the loading flag and the error state as they were.
C7_SelectFrame ==
  [][last'.kind \in SelectKinds
       => /\ data' = data /\ activeFilter' = activeFilter
          /\ pendingFilter' = pendingFilter /\ filtered' = filtered
          /\ page' = page /\ loading' = loading /\ error' = error
          /\ fetches' = fetches /\ nextSeq' = nextSeq /\ last'.toasts = 0
          /\ selected' # NoFeature /\ ~detailsOpen' /\ ~autoFitEnabled'
          /\ suppressFitRef']_vars

\* a marker has just been selected while page 2 of the list is shown
C7_Witness ==
  /\ last.kind = "marker" /\ selected # NoFeature
  /\ page = 2 /\ last.pageBefore = 2

\* C8: after a selection the fit evaluation that follows it fits nothing and
\* leaves the suppression flag reset.
C8_SuppressionConsumedOnce ==
  (last.kind \in SelectKinds /\ last.evals > 0)
    => (last.fitBounds = <<>> /\ ~suppressFitRef)

\* C9: after an event that ran the fit evaluation the suppression flag is false.
C9_FlagFalseAfterEvaluation == last.evals > 0 => ~suppressFitRef

\* C10: after an Apply that cleared a selection and changed the filtered
\* set, auto-fit is enabled and the fit evaluation the Apply ran over the
\* new, non-empty filtered set fitted the map to it.
C10_ApplyRefits ==
  (/\ last.kind = "apply" /\ last.hadSelection /\ last.evals > 0
   /\ filtered # <<>> /\ IdsOf(filtered) # last.idsBefore)
    => /\ autoFitEnabled
       /\ last.fitBounds # <<>>
       /\ last.fitBounds[Len(last.fitBounds)] = LatLngBounds(PointsMemo(filtered))

\* C11: a step that changes the filtered points while, at its end, auto-fit
\* is enabled, no suppression is pending (none was before it) and the
\* filtered set is non-empty requests a fit to the bounds of all filtered
\* points; a step that ends with an empty filtered set, auto-fit disabled or
\* a suppression pending requests no fit, and unless it flies to a selection
\* it leaves the zoom as it was.
C11_FitOnPointsChange ==
  [][/\ (/\ PointsMemo(filtered') # PointsMemo(filtered)
         /\ autoFitEnabled' /\ ~suppressFitRef /\ ~suppressFitRef'
         /\ filtered' # <<>>)
          => /\ last'.fitBounds # <<>>
             /\ \A i \in 1..Len(last'.fitBounds) :
                  last'.fitBounds[i] = LatLngBounds(PointsMemo(filtered'))
     /\ (filtered' = <<>> \/ ~autoFitEnabled' \/ suppressFitRef')
          => /\ last'.fitBounds = <<>>
             /\ last'.flyTo = <<>> => zoom' = zoom]_vars

\* C12: while an event is selected auto-fit is disabled, and no event that
\* ends with an event selected has fitted the map to the bounds.
C12_NoFitWhileSelected ==
  selected # NoFeature => (~autoFitEnabled /\ last.fitBounds = <<>>)

\* C13: a selection of an event other than the one already selected flies
\* the map to the latitude and longitude of the event it selects, at a zoom
\* not below the zoom the map had, and leaves the detail dialog closed.
C13_SelectionFlies ==
  [][(last'.kind \in SelectKinds /\ selected' # selected)
       => /\ last'.flyTo # <<>>
          /\ \A i \in 1..Len(last'.flyTo) :
               /\ last'.flyTo[i].target
                    = <<Features[selected'].lat, Features[selected'].lon>>
               /\ last'.flyTo[i].zoom >= zoom
          /\ ~detailsOpen']_vars

\* C14 as stated: the filtered set holds exactly the events of the
\* collection that pass the magnitude test and the place test, the place
\* text being the text of the filter as it was typed.
C14_FilterContractAsTyped ==
  view.kind = "filtered"
    => SeqToSet(view.filtered)
         = {id \in SeqToSet(data) : Passes(id, minMag, query)}

\* C14, amended: the filtered set holds, in the order of the collection,
\* exactly the events that pass the magnitude test and the place test, the
\* place text being the text of the filter with the whitespace at its ends
\* removed.
C14_FilterContract ==
  view.kind = "filtered"
    => view.filtered
         = SelectSeq(data, LAMBDA id : Passes(id, minMag, Trim(query)))

\* a filter whose place text begins with a space has kept one event and
\* dropped one for its magnitude and one for its place
C14_Witness ==
  /\ view.kind = "filtered" /\ query = <<" ", "A", "k">>
  /\ view.filtered # <<>>
  /\ \E id \in SeqToSet(data) \ SeqToSet(view.filtered) :
       Coalesce(Features[id].mag, NegInfinity) < minMag
  /\ \E id \in SeqToSet(data) \ SeqToSet(view.filtered) :
       Coalesce(Features[id].mag, NegInfinity) >= minMag

\* C15: filtering the filtered set again with the same filter gives the
\* same events in the same order.
C15_FilterIdempotent ==
  view.kind = "refiltered" => view.twice = view.once

\* the first filtering dropped an event and kept two
C15_Witness ==
  /\ view.kind = "refiltered"
  /\ Len(view.once) >= 2 /\ Len(view.once) < Len(data)
  /\ view.twice = view.once

\* C16: no event with a null magnitude is in the filtered set, whatever the
\* minimum magnitude; an event whose magnitude equals the minimum magnitude
\* is in the filtered set when it passes the place test.
C16_NullExcludedThresholdInclusive ==
  view.kind = "filtered"
    => \A id \in SeqToSet(data) :
         /\ Features[id].mag = Null => id \notin SeqToSet(view.filtered)
         /\ (Features[id].mag = minMag /\ Passes(id, minMag, Trim(query)))
              => id \in SeqToSet(view.filtered)

\* the collection held an event with a null magnitude, which was dropped,
\* and one with exactly the minimum magnitude, which was kept
C16_Witness ==
  /\ view.kind = "filtered"
  /\ \E id \in SeqToSet(data) :
       Features[id].mag = Null /\ id \notin SeqToSet(view.filtered)
  /\ \E id \in SeqToSet(view.filtered) : Features[id].mag = minMag

\* C17: the sorted view holds the events of the filtered set, each once,
\* with every time (0 when null) at least the time of the event after it;
\* after the sort the filtered set is still in the order of the collection.
C17_SortedPermutationDescending ==
  view.kind = "sorted"
    => /\ Len(view.sortedByTimeDesc) = Len(view.filtered)
       /\ \A id \in SeqToSet(view.filtered) :
            Cardinality({i \in 1..Len(view.sortedByTimeDesc) :
                           view.sortedByTimeDesc[i] = id}) = 1
       /\ \A i \in 1..(Len(view.sortedByTimeDesc) - 1) :
            TimeKey(view.sortedByTimeDesc[i]) >= TimeKey(view.sortedByTimeDesc[i + 1])
       /\ view.filtered
            = SelectSeq(data, LAMBDA id : id \in SeqToSet(view.sortedByTimeDesc))

\* a filtered set with a null time and two equal times has been sorted into
\* another order
C17_Witness ==
  /\ view.kind = "sorted"
  /\ {3, 5, 6} \subseteq SeqToSet(view.filtered)
  /\ view.sortedByTimeDesc # view.filtered
  /\ view.sortedByTimeDesc[Len(view.sortedByTimeDesc)] = 3

\* C18: for a non-empty filtered set the pages 1 to totalPages, one after
\* the other, are the sorted view, and every event is on exactly one page.
C18_PagesPartitionSorted ==
  (view.kind = "paged" /\ view.sortedByTimeDesc # <<>>)
    => /\ ConcatPages(view.pages, view.totalPages) = view.sortedByTimeDesc
       /\ \A id \in SeqToSet(view.sortedByTimeDesc) :
            Cardinality({p \in 1..view.totalPages :
                           id \in SeqToSet(view.pages[p])}) = 1

\* a filtered set that fills two pages and part of a third has been paged
C18_Witness ==
  /\ view.kind = "paged" /\ view.totalPages = 3
  /\ Len(view.sortedByTimeDesc) < Len(data)
  /\ view.pages[3] # <<>>

\* C19: totalPages is the least number of pages of 9 that hold all filtered
\* events, and 1 when there is none; every page before the last holds 9
\* events and the last holds the rest.
C19_PageCounts ==
  view.kind = "paged"
    => LET count == Len(view.sortedByTimeDesc)
           n == view.totalPages
       IN /\ n >= 1 /\ 9 * n >= count
          /\ n > 1 => 9 * (n - 1) < count
          /\ \A p \in 1..(n - 1) : Len(view.pages[p]) = 9
          /\ Len(view.pages[n]) = count - 9 * (n - 1)

\* 12 filtered events have been paged into a page of 9 and a page of 3
C19_Witness ==
  /\ view.kind = "paged" /\ Len(view.sortedByTimeDesc) = 12
  /\ view.totalPages = 2
  /\ Len(view.pages[1]) = 9 /\ Len(view.pages[2]) = 3

C21_StatsOverFiltered ==
  view.kind = "stats"
    => LET fl == SelectSeq(data, LAMBDA id : Passes(id, minMag, Trim(query)))
           mag(id) == IF Features[id].mag = Null THEN 0 ELSE Features[id].mag
           st == view.stats
       IN /\ st.total = Len(fl)
          /\ st.maxMag >= 0
          /\ \A id \in SeqToSet(fl) : st.maxMag >= mag(id)
          /\ st.maxMag = 0 \/ \E id \in SeqToSet(fl) : st.maxMag = mag(id)
          /\ fl = <<>> => st.avgMag.num = 0
          /\ st.avgMag.den # 0
          /\ fl # <<>>
               => st.avgMag.num * Len(fl)
                    = SumSeq([i \in 1..Len(fl) |-> mag(fl[i])]) * st.avgMag.den

\* the statistics of a filtered set, smaller than the collection, whose
\* only event has a negative magnitude
C21_Witness ==
  /\ view.kind = "stats" /\ Len(data) > 1
  /\ view.stats.total = 1 /\ view.stats.maxMag = 0
  /\ view.stats.avgMag.num < 0

\* C27: there is one reading of the clock, taken while the statistics were
\* computed, for which recent is the number of filtered events with a
\* non-null time less than an hour before that reading.
C27_RecentCountOneClock ==
  view.kind = "stats"
    => \E now \in view.nowFirst..view.nowLast :
         view.stats.recent
           = Cardinality({i \in 1..Len(view.filtered) :
                            /\ Features[view.filtered[i]].time # Null
                            /\ now - Features[view.filtered[i]].time < hourMs})

\* C22: fetchEarthquakes(range) requests the endpoint of that range and no
\* other; when the answer's status is not a success status the promise is
\* rejected with an error that carries the status and no collection is
\* returned; when it is a success status the promise is fulfilled with the
\* document of that endpoint.
C22_FetchOneEndpointOrStatusError ==
  view.kind = "settled"
    => LET url == FEED_BY_RANGE[view.range]
           answer == view.network[url]
           promise == view.promise
       IN /\ promise.requested = <<url>>
          /\ (answer.status # 0 /\ (answer.status < 200 \/ answer.status > 299))
               => /\ ~promise.fulfilled
                  /\ promise.reason.isError
                  /\ promise.reason.status = answer.status
          /\ (answer.status >= 200 /\ answer.status <= 299)
               => /\ promise.fulfilled
                  /\ promise.value = Document(url, answer.body.features)

\* the endpoint of 'week' answered 503 with a document, and the call failed
C22_Witness ==
  /\ view.kind = "settled" /\ view.range = "week"
  /\ view.network[FEED_BY_RANGE["week"]].status = 503
  /\ view.network[FEED_BY_RANGE["week"]].body.features # <<>>
  /\ ~view.promise.fulfilled /\ view.promise.reason.status = 503

\* C23: after a step in which the fetch for the current range failed, the
\* error message is not null and is the message of the rejected Error or
\* 'Unknown error', exactly one notification has been fired in the step,
\* the loading flag is false and the failed fetch is no longer pending.
C23_FailureBecomesState ==
  last.kind = "rejected"
    => /\ error # NoError
       /\ error \in {e.message : e \in {x \in Rejections : x.isError}}
                      \cup {"Unknown error"}
       /\ last.toasts = 1
       /\ ~loading
       /\ \A f \in fetches : ~f.isActive

\* the fetch for the current range was rejected with a value that is not
\* an Error
C23_Witness ==
  /\ last.kind = "rejected" /\ error = "Unknown error"
  /\ last.toasts = 1 /\ ~loading

\* C24: one fetch has been started at startup; a step that changes the
\* active range starts exactly one fetch, for the new range, and any other
\* step, an Apply that keeps the range among them, starts none; at most one
\* pending fetch can update the state.
C24_OneFetchPerRangeChange ==
  /\ (nextSeq = 1 /\ Cardinality(fetches) = 1)
  /\ [][/\ range' # range
            => /\ nextSeq' = nextSeq + 1
               /\ \E f \in fetches' :
                    /\ f.seq = nextSeq' /\ f.range = range' /\ f.isActive
                    /\ SeqsOf(fetches') \subseteq SeqsOf(fetches) \cup {f.seq}
        /\ range' = range
            => /\ nextSeq' = nextSeq
               /\ SeqsOf(fetches') \subseteq SeqsOf(fetches)
        /\ Cardinality({f \in fetches' : f.isActive}) <= 1]_vars

\* an Apply has just changed the range while the fetch before it was
\* pending: two fetches are pending, two have been started
C24_Witness ==
  /\ last.kind = "apply" /\ nextSeq = 2
  /\ Cardinality(fetches) = 2
  /\ Cardinality({f \in fetches : f.isActive}) = 1

\* C25: the loading flag is true exactly while the fetch started last, the
\* one for the current range, is pending: the settling of a superseded
\* fetch leaves it true; and when that fetch settles in the end, a true
\* loading flag becomes false in the end.
C25_LoadingFollowsCurrentFetch ==
  /\ [](loading <=> \E f \in fetches : f.isActive /\ f.range = range)
  /\ (loading ~> ~loading)

\* the fetch for the second range has just succeeded and cleared the
\* loading flag while the superseded fetch is still pending
C25_Witness ==
  /\ last.kind = "fulfilled" /\ ~loading /\ nextSeq = 2
  /\ fetches # {} /\ \A f \in fetches : ~f.isActive

\* C26: when the fetch for the current range succeeds, the collection is
\* exactly the features of the response, whatever it held before, and the
\* filtered, sorted and paged views are the ones derived from the response
\* under the active filter.
C26_ResponseReplacesCollection ==
  [][\A f \in fetches : \A geo \in Feeds :
       (last'.kind = "fulfilled" /\ f.isActive /\ FulfilledWith(f, geo))
         => /\ data' = geo
            /\ minMag' = minMag /\ query' = query
            /\ filtered' = Filtered(geo, minMag, query)
            /\ sortedByTimeDesc' = SortedByTimeDesc(Filtered(geo, minMag, query))
            /\ pageItems'
                 = PageItems(SortedByTimeDesc(Filtered(geo, minMag, query)), page')]_vars

C26_Witness ==
  /\ last.kind = "fulfilled"
  /\ last.idsBefore \ IdsOf(data) # {}
  /\ filtered # <<>> /\ Len(filtered) < Len(data)

\* C28: once an event and its effects have run, the current page lies in
\* 1..totalPages and every page button on offer leads to a page in that
\* interval (Prev and Next are offered only inside it); a filtered set that
\* shrinks takes the page back inside.
C28_PageWithinTotalPages ==
  /\ 1 <= page /\ page <= totalPages
  /\ \A p \in SeqToSet(GetPageNumbers(page, totalPages, defaultMax)) :
       1 <= p /\ p <= totalPages

C28_Witness ==
  /\ last.kind \in {"apply", "fulfilled"}
  /\ last.pageBefore = 2
  /\ Cardinality(last.idsBefore) > Len(filtered)
  /\ page = 1 /\ totalPages = 1

\* C29: a page click, a Prev or Next click or an edit of a pending filter
\* input, none of which changes the filtered points or the auto-fit flag,
\* requests no fit of the viewport.
C29_FitOnlyOnPointsOrFlag ==
  last.kind \in PendingKinds \cup {"page", "prev", "next"}
    => last.fitBounds = <<>>

\* C30: a selection flies the map at most once, an event that is not a
\* selection (a page click, an edit of a pending filter input, a fetch
\* resolution, Apply) flies it not at all, and no event that ends with
\* nothing selected has flown it.
C30_OneFlyPerSelection ==
  /\ selected = NoFeature => last.flyTo = <<>>
  /\ last.kind \in SelectKinds => Len(last.flyTo) <= 1
  /\ last.kind \notin SelectKinds => last.flyTo = <<>>

C32_ErrorClearedOnlyByNewFetch ==
  [][error # NoError
       => /\ error' = NoError
              => /\ range' # range /\ nextSeq' = nextSeq + 1
                 /\ \E f \in fetches' : f.isActive /\ f.seq = nextSeq'
          /\ (\/ last'.kind \in SelectKinds \cup {"page", "prev", "next"}
              \/ last'.kind = "apply" /\ range' = range)
              => error' = error /\ ~MarkerLayerRendered(World)']_vars

C32_Witness ==
  /\ last.kind = "apply" /\ error # NoError /\ ~loading
  /\ ~MarkerLayerRendered(World)
  /\ minMag # 25

====
